---- MODULE Spec2Model ----
(***************************************************************************)
(* A model of jenkinsctl's remote resource client: the console-log follow  *)
(* loop of `job build --follow` (src/src/args.rs, src/src/jenkins.rs) and  *)
(* the recursive job listing (src/src/main.rs, rec_walk).  One run of the  *)
(* program executes one command: FollowSpec is a follow session, WalkSpec  *)
(* a job listing, DownloadSpec an artifact download over a range of        *)
(* builds, RebuildSpec a rebuild.  CollectSpec is one call of              *)
(* Jenkins::get_json_data, ParseSpec one call of BuildParam::from_str and  *)
(* PathSpec one call of Tree::build_path, Jenkins::build or                *)
(* Jenkins::remove on a job argument.  NodeInfoSpec decodes and            *)
(* re-serializes a node listing, NodeSetSpec is a `node set`, BuildSpec    *)
(* the start of `job build --follow` against a job that other clients      *)
(* build too, and FetchSpec a call of get_json_data with its caller.       *)
(*                                                                         *)
(* Strings are sequences of one-character strings; byte buffers are        *)
(* sequences of byte values.                                               *)
(***************************************************************************)
EXTENDS Integers, Sequences, FiniteSets, TLC

(***************************************************************************)
(* Bounds of the model.                                                    *)
(***************************************************************************)
\* longest console log the build writes
MaxLog == 3
\* most poll requests one follow session issues
MaxPolls == 4

VARIABLES
    \* ---- the server's build, whose console log is followed
    log,            \* bytes of the console log written so far
    building,       \* TRUE while the build runs (the server sends x-more-data)
    \* ---- the follow session of handle (JobAction::Build, follow)
    offset,         \* `offset` of the follow loop                   args.rs:423
    follow,         \* "Polling", "Done", or "Panicked" (the process aborted)
    stdout,         \* everything print! wrote, in order
    result,         \* what handle() returned: "running", "Ok", "Err", "panic"
    \* ---- what went over the wire
    requests,       \* the start= parameter of every poll issued, in order
    resp,           \* the last response received
    seen,           \* length of the log when the last poll was answered, -1 before
    faithful,       \* every size header so far was the log's length
    \* ---- the server's job namespace
    ns,             \* the jobs at the root, each [name, kind, jobs]
    \* ---- the job listing of handle (JobAction::List) and rec_walk
    walk,           \* "idle", "start", "running", "returned"
    stack,          \* the call stack: handle's loop, then rec_walk's frames
    inflight,       \* requests sent and not yet answered
    queried,        \* every listing request issued, in order
    reply           \* how the last listing request was answered

followVars == <<log, building, offset, follow, requests, resp, seen, faithful>>

walkVars == <<ns, walk, stack, inflight, queried, reply>>

VARIABLES
    \* ---- one call of Jenkins::get_json_data
    res,            \* the response: its status and the frames of its body
    nread,          \* frames taken from res.frame() so far
    writer,         \* the BufWriter's bytes
    collected,      \* what get_json_data returned; tag "none" before
    \* ---- handle (JobAction::Download, BuildItem::Artifact) over a range
    range,          \* BuildParam::Range(start, end)
    build,          \* the loop variable of `for build in start..end`
    fetched,        \* the build of every artifact request issued, in order
    files,          \* the build of every archive file written, in order
    errlog,         \* the build of every log::error! line, in order
    dl,             \* "idle", "running", "returned"
    \* ---- one call of BuildParam::from_str
    token,          \* the string parsed
    parsed,         \* what from_str returned; tag "none" before
    \* ---- one job path handed to build_path, build or remove
    job_arg,        \* the path string: the command's `job` argument
    caller,         \* "none" before; then "build_path", "build" or "remove"
    sent,           \* "none" before; then the call's outcome
    \* ---- handle (JobAction::Rebuild)
    actions,        \* the actions array of the first response
    idx,            \* elements of the array the loop has visited
    param_actions_truth,    \* the HashMap<bool, usize>, as a set of pairs
    trees           \* the query of every request issued, in order

collectVars == <<res, nread, writer, collected>>

downloadVars == <<range, build, fetched, files, errlog, dl>>

parseVars == <<token, parsed>>

pathVars == <<job_arg, caller, sent>>

rebuildVars == <<actions, idx, param_actions_truth, trees>>

VARIABLES
    \* ---- the caller of get_json_data
    consumed,       \* where the returned body went: a file or the decoder
    \* ---- one node-info payload through Jenkins::system and back
    payload,        \* busyExecutors and totalExecutors as the server wrote them
    node_info,      \* the NodesInfo decoded from it; tag "none" before
    reserialized,   \* the two fields as serialized from node_info
    \* ---- handle (NodeAction::Set) and the server's nodes
    computers,      \* the offline and connected flag of every node
    node_cmd,       \* the node and the NodeState of the command
    node_req,       \* the request of the command: its stage and endpoint
    \* ---- handle (JobAction::Build) and the server's job
    queue,          \* who asked for each build waiting in the queue
    started,        \* who asked for each build started; build n is started[n]
    build_info,     \* build_info.next_build_number; 0 before it is read
    followed,       \* the build whose log is polled; 0 before
    bpc             \* "idle", "start", "read", "posted", "following"

nodeInfoVars == <<payload, node_info, reserialized>>

nodeSetVars == <<computers, node_cmd, node_req>>

buildVars == <<queue, started, build_info, followed, bpc>>

laterVars == <<consumed, nodeInfoVars, nodeSetVars, buildVars>>

cmdVars == <<collectVars, downloadVars, parseVars, pathVars, rebuildVars,
             laterVars>>

vars == <<followVars, walkVars, cmdVars, stdout, result>>

\* the parts of the program that a command does not run
CollectIdle ==
    /\ res = [sent |-> FALSE, status |-> 0, frames |-> <<>>]
    /\ nread = 0
    /\ writer = <<>>
    /\ collected = [tag |-> "none", error |-> "", bytes |-> <<>>]

DownloadIdle ==
    /\ range = [start |-> 0, end |-> 0]
    /\ build = 0
    /\ fetched = <<>>
    /\ files = <<>>
    /\ errlog = <<>>
    /\ dl = "idle"

ParseIdle ==
    /\ token = <<>>
    /\ parsed = [tag |-> "none", a |-> <<>>, b |-> <<>>, error |-> ""]

PathIdle ==
    /\ job_arg = <<>>
    /\ caller = "none"
    /\ sent = [tag |-> "none", method |-> "", url |-> <<>>, query |-> <<>>]

RebuildIdle ==
    /\ actions = <<>>
    /\ idx = 0
    /\ param_actions_truth = {}
    /\ trees = <<>>

ConsumedIdle == consumed = [op |-> "none", by |-> "none", bytes |-> <<>>]

NodeInfoIdle ==
    /\ payload = [busyExecutors |-> <<>>, totalExecutors |-> <<>>]
    /\ node_info = [tag |-> "none", busy_executors |-> <<>>,
                    total_executors |-> <<>>]
    /\ reserialized = [tag |-> "none", busyExecutors |-> <<>>,
                       totalExecutors |-> <<>>]

NodeSetIdle ==
    /\ computers = <<>>
    /\ node_cmd = [node |-> 0, state |-> "none", reason |-> <<>>]
    /\ node_req = [stage |-> "none", endpoint |-> "", message |-> <<>>]

BuildIdle ==
    /\ queue = <<>>
    /\ started = <<>>
    /\ build_info = 0
    /\ followed = 0
    /\ bpc = "idle"

LaterIdle == ConsumedIdle /\ NodeInfoIdle /\ NodeSetIdle /\ BuildIdle

CmdIdle ==
    /\ CollectIdle /\ DownloadIdle /\ ParseIdle /\ PathIdle /\ RebuildIdle
    /\ LaterIdle

(***************************************************************************)
(* The server side of logText/progressiveText.                             *)
(***************************************************************************)
\* bytes a build writes to its console: plain ASCII text
LogBytes == {97, 98}

\* the body of progressiveText?start=n: the log from byte n on
ProgressiveText(text, start) ==
    IF start >= Len(text) THEN <<>> ELSE SubSeq(text, start + 1, Len(text))

\* body of an error page
ErrorPage == <<52, 48, 52>>

NoResponse ==
    [sent |-> FALSE, status |-> 0,
     x_text_size |-> [present |-> FALSE, parses |-> FALSE, value |-> 0],
     x_more_data |-> FALSE, body |-> <<>>, body_ok |-> FALSE]

\* what may come back for a poll with start=n
Responses(start) ==
    \* connection or protocol failure: send_request returns Err
    {NoResponse}
    \cup
    \* 404: the build has not left the queue; no progressive-text header
    {[sent |-> TRUE, status |-> 404,
      x_text_size |-> [present |-> FALSE, parses |-> FALSE, value |-> 0],
      x_more_data |-> FALSE, body |-> ErrorPage, body_ok |-> TRUE]}
    \cup
    \* 200 with a size header that is no number
    {[sent |-> TRUE, status |-> 200,
      x_text_size |-> [present |-> TRUE, parses |-> FALSE, value |-> 0],
      x_more_data |-> building, body |-> ProgressiveText(log, start),
      body_ok |-> TRUE]}
    \cup
    \* 200 with a size header; the body may fail mid-stream
    {[sent |-> TRUE, status |-> 200,
      x_text_size |-> [present |-> TRUE, parses |-> TRUE, value |-> n],
      x_more_data |-> building, body |-> ProgressiveText(log, start),
      body_ok |-> ok] : n \in 0..MaxLog, ok \in BOOLEAN}

(***************************************************************************)
(* The client.                                                             *)
(***************************************************************************)
\* String::from_utf8_lossy, then print!: ASCII bytes are written as they
\* are, a byte that is no valid UTF-8 becomes U+FFFD
from_utf8_lossy(bytes) ==
    [i \in 1..Len(bytes) |-> IF bytes[i] < 128 THEN bytes[i] ELSE 65533]

\* "{}/logText/progressiveText?start={offset}"
StartParamZero(off) == 0
StartParam(off) == off

\* get_console_log without the print! of the last fragment
get_console_log_silent(r) ==
    LET none == [tag |-> "None", data |-> <<>>, offset |-> 0, printed |-> <<>>]
    IN  IF ~r.sent THEN none
        ELSE IF ~r.x_text_size.present
            THEN [tag |-> "panic", data |-> <<>>, offset |-> 0, printed |-> <<>>]
        ELSE IF ~r.x_text_size.parses THEN none
        ELSE IF ~r.body_ok THEN none
        ELSE IF ~r.x_more_data THEN none
        ELSE [tag |-> "Some", data |-> r.body, offset |-> r.x_text_size.value,
              printed |-> <<>>]

\* Jenkins::get_console_log on a response: None, Some((writer, offset)), or
\* a panic; `printed` is what it wrote to stdout itself
get_console_log(r) ==
    LET none == [tag |-> "None", data |-> <<>>, offset |-> 0, printed |-> <<>>]
    IN  IF ~r.sent THEN none
        ELSE IF ~r.x_text_size.present
            THEN [tag |-> "panic", data |-> <<>>, offset |-> 0, printed |-> <<>>]
        ELSE IF ~r.x_text_size.parses THEN none
        ELSE IF ~r.body_ok THEN none
        ELSE IF ~r.x_more_data
            THEN [tag |-> "None", data |-> <<>>, offset |-> r.x_text_size.value,
                  printed |-> from_utf8_lossy(r.body)]
        ELSE [tag |-> "Some", data |-> r.body, offset |-> r.x_text_size.value,
              printed |-> <<>>]

FollowInit ==
    /\ log = <<>>
    /\ building = TRUE
    /\ offset = 0
    /\ follow = "Polling"
    /\ stdout = <<>>
    /\ result = "running"
    /\ requests = <<>>
    /\ resp = NoResponse
    /\ seen = -1
    /\ faithful = TRUE
    /\ ns = <<>>
    /\ walk = "idle"
    /\ stack = <<>>
    /\ inflight = <<>>
    /\ queried = <<>>
    /\ reply = "none"
    /\ CmdIdle

\* the build writes a byte to its console
ServerAppend ==
    /\ building
    /\ Len(log) < MaxLog
    /\ \E b \in LogBytes : log' = Append(log, b)
    /\ UNCHANGED <<building, offset, follow, stdout, result,
                   requests, resp, seen, faithful, walkVars, cmdVars>>

\* the build completes
ServerFinish ==
    /\ building
    /\ building' = FALSE
    /\ UNCHANGED <<log, offset, follow, stdout, result,
                   requests, resp, seen, faithful, walkVars, cmdVars>>

\* the Some arm of the loop's match: the cursor after a fragment  args.rs:432
NextOffsetReset(off, data, cur) == IF data # <<>> THEN cur ELSE 0
NextOffset(off, data, cur) == IF data # <<>> THEN cur ELSE off

\* the Some arm of the loop's match: what is printed             args.rs:433
Emit(data) == IF data # <<>> THEN from_utf8_lossy(data) ELSE <<>>

\* one iteration of the follow loop: request, response, match
Poll ==
    /\ follow = "Polling"
    /\ Len(requests) < MaxPolls
    /\ \E r \in Responses(StartParam(offset)) :
        LET got == get_console_log(r) IN
        /\ requests' = Append(requests, StartParam(offset))
        /\ resp' = r
        /\ seen' = Len(log)
        /\ faithful' = (faithful /\ (r.x_text_size.parses =>
                                        r.x_text_size.value = Len(log)))
        /\ CASE got.tag = "Some" ->
                  /\ follow' = "Polling"
                  /\ stdout' = stdout \o Emit(got.data)
                  /\ offset' = NextOffset(offset, got.data, got.offset)
                  /\ UNCHANGED result
             [] got.tag = "None" ->
                  \* break; handle() falls through to Ok(())
                  /\ follow' = "Done"
                  /\ stdout' = stdout \o got.printed
                  /\ result' = "Ok"
                  /\ UNCHANGED offset
             [] got.tag = "panic" ->
                  /\ follow' = "Panicked"
                  /\ result' = "panic"
                  /\ UNCHANGED <<stdout, offset>>
    /\ UNCHANGED <<log, building, walkVars, cmdVars>>

FollowNext == ServerAppend \/ ServerFinish \/ Poll

FollowSpec == FollowInit /\ [][FollowNext]_vars

(***************************************************************************)
(* Strings.                                                                *)
(***************************************************************************)
\* the pieces of s between occurrences of sep (str::split)
RECURSIVE SplitFrom(_, _, _)
SplitFrom(s, sep, piece) ==
    IF s = <<>> THEN <<piece>>
    ELSE IF Head(s) = sep THEN <<piece>> \o SplitFrom(Tail(s), sep, <<>>)
    ELSE SplitFrom(Tail(s), sep, Append(piece, Head(s)))

Split(s, sep) == SplitFrom(s, sep, <<>>)

\* the pieces joined by sep
RECURSIVE Join(_, _)
Join(pieces, sep) ==
    IF pieces = <<>> THEN <<>>
    ELSE IF Len(pieces) = 1 THEN pieces[1]
    ELSE pieces[1] \o <<sep>> \o Join(Tail(pieces), sep)

RECURSIVE Flat(_)
Flat(ss) == IF ss = <<>> THEN <<>> ELSE Head(ss) \o Flat(Tail(ss))

\* the pieces other than those in `dropped`
RECURSIVE Without(_, _)
Without(pieces, dropped) ==
    IF pieces = <<>> THEN <<>>
    ELSE IF Head(pieces) \in dropped THEN Without(Tail(pieces), dropped)
    ELSE <<Head(pieces)>> \o Without(Tail(pieces), dropped)

\* std::path::Path::iter on a Unix path: the root if the path starts with
\* a separator, then the components; empty components and `.` are
\* dropped, except a `.` that starts a relative path
PathIter(path) ==
    LET parts  == Split(path, "/")
        rooted == path # <<>> /\ Head(path) = "/"
        lead   == IF rooted THEN << <<"/">> >>
                  ELSE IF parts[1] = <<".">> THEN << <<".">> >>
                  ELSE <<>>
    IN  lead \o Without(parts, {<<>>, <<".">>})

\* str::rsplit_once(sep), field .1: what follows the last sep
AfterLast(s, sep) ==
    LET at == CHOOSE i \in 1..Len(s) :
                  s[i] = sep /\ \A j \in (i + 1)..Len(s) : s[j] # sep
    IN  SubSeq(s, at + 1, Len(s))

\* str::to_lowercase on the class names the server sends
LowerPiece(t) ==
    CASE t = "Folder" -> "folder"
      [] t = "FreeStyleProject" -> "freestyleproject"
      [] OTHER -> t

to_lowercase(s) == [i \in 1..Len(s) |-> LowerPiece(s[i])]

(***************************************************************************)
(* The server's namespace and its answer to api/json?tree=jobs[...].       *)
(***************************************************************************)
\* most jobs and folders in a namespace
MaxNodes == 4

\* deepest the program's call stack can grow
MaxStack == 8

FolderClass ==
    <<"com", ".", "cloudbees", ".", "hudson", ".", "plugins", ".", "folder",
      ".", "Folder">>

JobClass == <<"hudson", ".", "model", ".", "FreeStyleProject">>

JobLetters == <<"A", "B", "C", "D", "E", "a", "b", "c">>

FolderLetters == <<"F", "G", "H", "I", "J", "f", "g", "h">>

\* all shapes of n nodes: a sequence of jobs and folders, folders nested
RECURSIVE ForestsOf(_)
ForestsOf(n) ==
    IF n = 0 THEN {<<>>}
    ELSE UNION {
        { <<t>> \o rest :
            t \in (IF k = 1 THEN {[kind |-> "job", jobs |-> <<>>]} ELSE {})
                  \cup {[kind |-> "folder", jobs |-> f] : f \in ForestsOf(k - 1)},
            rest \in ForestsOf(n - k) }
        : k \in 1..n }

\* names by position: the i-th entry of a listing is job A, B, .. or
\* folder F, G, ..
RECURSIVE Named(_)
Named(forest) ==
    [i \in 1..Len(forest) |->
        [name |-> IF forest[i].kind = "job" THEN <<JobLetters[i]>>
                  ELSE <<FolderLetters[i]>>,
         kind |-> forest[i].kind,
         jobs |-> Named(forest[i].jobs)]]

Leaf(n) == [name |-> <<n>>, kind |-> "job", jobs |-> <<>>]

\* folder F with jobs A, B and folder G with job C
ExampleNamespace ==
    << [name |-> <<"F">>, kind |-> "folder",
        jobs |-> << Leaf("A"), Leaf("B"),
                    [name |-> <<"G">>, kind |-> "folder",
                     jobs |-> << Leaf("C") >>] >>] >>

Namespaces ==
    {Named(f) : f \in UNION {ForestsOf(n) : n \in 0..MaxNodes}}
    \cup {ExampleNamespace}

\* the root listing's query                                    args.rs:382
ListQuery == <<"api/json?tree=jobs[fullDisplayName,fullName,name]">>

\* a folder's listing query, put after inner_job               main.rs:228
FolderQuery == <<"/api/json?tree=jobs[fullDisplayName,fullName,name]">>


\* the folder a request path /job/a/job/b names: its jobs, or "missing"
RECURSIVE Lookup(_, _)
Lookup(jobs, names) ==
    IF names = <<>> THEN [found |-> TRUE, jobs |-> jobs]
    ELSE LET hit == {i \in 1..Len(jobs) :
                        jobs[i].name = Head(names) /\ jobs[i].kind = "folder"}
         IN  IF hit = {} THEN [found |-> FALSE, jobs |-> <<>>]
             ELSE Lookup(jobs[CHOOSE i \in hit : TRUE].jobs, Tail(names))

\* the names in the path of a request:  (/job/<name>)* then the query
FolderOf(request) ==
    LET path == SubSeq(request, 1, Len(request) - 1)
    IN  Without(Split(path, "/job/"), {<<>>})

\* the jobs array of the listing of the folder with these names
Listing(names) ==
    LET at == Lookup(ns, names)
    IN  [i \in 1..Len(at.jobs) |->
            [class    |-> IF at.jobs[i].kind = "folder" THEN FolderClass
                          ELSE JobClass,
             fullName |-> Join(Append(names, at.jobs[i].name), "/"),
             name     |-> at.jobs[i].name]]

\* how a listing request may be answered
Answers(request) ==
    LET at == Lookup(ns, FolderOf(request))
    IN  {"transport", "decode"} \cup (IF at.found THEN {"ok"} ELSE {})
            \cup {"404"}

(***************************************************************************)
(* The job listing: handle (JobAction::List) and rec_walk.                 *)
(***************************************************************************)
\* get_json_data then system::<Info>: the decoded jobs, or the error `?`
\* returns                                 main.rs:232-236, args.rs:383-385
ExpandLenient(request, answer) ==
    IF answer = "ok"
    THEN [ok |-> TRUE, jobs |-> Listing(FolderOf(request))]
    ELSE [ok |-> TRUE, jobs |-> <<>>]
Expand(request, answer) ==
    IF answer = "ok"
    THEN [ok |-> TRUE, jobs |-> Listing(FolderOf(request))]
    ELSE [ok |-> FALSE, jobs |-> <<>>]

\* rec_walk resumes after .await once the response is collected main.rs:232
ReadyEager(waiting) == TRUE
Ready(waiting) == waiting = <<>>

\* if class == "folder"                                         main.rs:226
IsFolderAlways(class) == TRUE
IsFolder(class) == class = <<"folder">>

\* the breadcrumb printed for a child of a folder           main.rs:245-251
CrumbsAlways(class, job_path) == job_path
Crumbs(class, job_path) == IF class # <<"folder">> THEN job_path ELSE <<>>

\* the order in which `for job in nested_job_info.jobs` visits  main.rs:237
RECURSIVE Reversed(_)
Reversed(jobs) ==
    IF jobs = <<>> THEN <<>> ELSE Append(Reversed(Tail(jobs)), Head(jobs))
InOrder(jobs) == jobs

\* inner_job.push_str("/job/{job_name}")                       main.rs:227
push_nothing(inner_job, job_name) == inner_job
push_job(inner_job, job_name) == inner_job \o <<"/job/">> \o job_name

\* the frame that runs: the innermost one that is not awaiting a response
Cur == IF \E i \in 1..Len(stack) : ~stack[i].awaiting
       THEN CHOOSE i \in 1..Len(stack) :
                ~stack[i].awaiting
                /\ \A j \in (i + 1)..Len(stack) : stack[j].awaiting
       ELSE 0

WalkInit ==
    /\ ns \in Namespaces
    /\ walk = "start"
    /\ stack = <<>>
    /\ inflight = <<>>
    /\ queried = <<>>
    /\ reply = "none"
    /\ stdout = <<>>
    /\ result = "running"
    /\ log = <<>>
    /\ building = FALSE
    /\ offset = 0
    /\ follow = "Idle"
    /\ requests = <<>>
    /\ resp = NoResponse
    /\ seen = -1
    /\ faithful = TRUE
    /\ CmdIdle

\* handle: the root listing is requested                    args.rs:380-383
ListStart ==
    /\ walk = "start"
    /\ walk' = "running"
    /\ inflight' = <<ListQuery>>
    /\ queried' = <<ListQuery>>
    /\ stack' = <<[inner_job |-> <<>>, jobs |-> <<>>, top |-> TRUE,
                   awaiting |-> TRUE]>>
    /\ UNCHANGED <<ns, reply, stdout, result, followVars, cmdVars>>

\* the oldest outstanding request is answered; the frame that awaits it
\* gets the decoded jobs, or the error unwinds every frame
Reply ==
    /\ walk = "running"
    /\ inflight # <<>>
    /\ \E answer \in Answers(Head(inflight)) :
        LET got == Expand(Head(inflight), answer)
            at  == CHOOSE i \in 1..Len(stack) :
                       stack[i].awaiting
                       /\ \A j \in 1..(i - 1) : ~stack[j].awaiting
        IN  /\ reply' = answer
            /\ IF got.ok
               THEN /\ stack' = [stack EXCEPT
                                    ![at].jobs = InOrder(got.jobs),
                                    ![at].awaiting = FALSE]
                    /\ inflight' = Tail(inflight)
                    /\ UNCHANGED <<walk, result>>
               ELSE /\ stack' = <<>>
                    /\ inflight' = <<>>
                    /\ walk' = "returned"
                    /\ result' = "Err"
    /\ UNCHANGED <<ns, queried, stdout, followVars, cmdVars>>

\* one iteration of the running frame's loop over jobs, with the call of
\* rec_walk it makes, up to that call's request or its println
StepChild ==
    /\ walk = "running"
    /\ Ready(inflight)
    /\ Cur > 0
    /\ stack[Cur].jobs # <<>>
    /\ Len(stack) < MaxStack
    /\ LET frame    == stack[Cur]
           job      == Head(frame.jobs)
           class    == to_lowercase(AfterLast(job.class, "."))
           parts    == PathIter(job.fullName)
           job_path == SubSeq(parts, 1, Len(parts) - 1)
           crumbs   == IF frame.top THEN <<>> ELSE Crumbs(class, job_path)
           job_name == IF frame.top THEN job.fullName ELSE job.name
           inner    == IF frame.top THEN <<>> ELSE frame.inner_job
           printed  == [i \in 1..Len(crumbs) |->
                           [crumb |-> TRUE, text |-> crumbs[i]]]
           rest     == [stack EXCEPT ![Cur].jobs = Tail(frame.jobs)]
       IN  IF IsFolder(class)
           THEN LET inner_job == push_job(inner, job_name)
                    request   == inner_job \o FolderQuery
                IN  /\ stack' = Append(rest, [inner_job |-> inner_job,
                                              jobs |-> <<>>, top |-> FALSE,
                                              awaiting |-> TRUE])
                    /\ inflight' = Append(inflight, request)
                    /\ queried' = Append(queried, request)
                    /\ stdout' = stdout \o printed
           ELSE /\ stack' = rest
                /\ stdout' = stdout \o printed
                                \o <<[crumb |-> FALSE, text |-> job_name]>>
                /\ UNCHANGED <<inflight, queried>>
    /\ UNCHANGED <<ns, walk, reply, result, followVars, cmdVars>>

\* the running frame's loop is over: rec_walk returns Ok(()), and at the
\* bottom of the stack handle does
Return ==
    /\ walk = "running"
    /\ Ready(inflight)
    /\ Cur > 0
    /\ stack[Cur].jobs = <<>>
    /\ stack' = SubSeq(stack, 1, Cur - 1) \o SubSeq(stack, Cur + 1, Len(stack))
    /\ IF Len(stack) = 1
       THEN walk' = "returned" /\ result' = "Ok"
       ELSE UNCHANGED <<walk, result>>
    /\ UNCHANGED <<ns, inflight, queried, reply, stdout, followVars, cmdVars>>

WalkNext == ListStart \/ Reply \/ StepChild \/ Return

WalkSpec == WalkInit /\ [][WalkNext]_vars

\* every request is answered and the one task of the listing is scheduled
WalkFairSpec == WalkSpec /\ WF_vars(WalkNext)

(***************************************************************************)
(* Properties of the follow session.                                       *)
(***************************************************************************)
\* this step issues a poll
IsPoll == requests' # requests

\* get_console_log read the response to its end: the size header parses
\* and every body frame arrived
Complete(r) ==
    r.sent /\ r.x_text_size.present /\ r.x_text_size.parses /\ r.body_ok

\* the poll failed in transport: no connection, or a body frame failed
Failed(r) == ~r.sent \/ (r.x_text_size.present /\ r.x_text_size.parses
                          /\ ~r.body_ok)

\* the server offset the session has reached: the loop's offset, and after
\* the last fragment the size that came with it (jenkins.rs:164)
Cursor ==
    IF follow = "Done" /\ Complete(resp) THEN resp.x_text_size.value
    ELSE offset

C2_OffsetNeverDecreases ==
    /\ offset = 0
    /\ [][ /\ (requests = <<>> /\ IsPoll) => requests'[1] = 0
           /\ offset' >= offset ]_vars

\* C2 amended: the offset starts at 0, the first poll asks for start=0,
\* and the offset does not decrease across any poll whose size header is
\* not below the offset the poll was issued with.
C2_OffsetMonotoneUnlessSizeRegresses ==
    /\ offset = 0
    /\ [][ /\ (requests = <<>> /\ IsPoll) => requests'[1] = 0
           /\ (IsPoll /\ resp'.x_text_size.parses
                    => resp'.x_text_size.value >= offset)
               => offset' >= offset ]_vars

\* C2 witness: the offset advanced twice, to sizes that never regressed.
C2_Witness ==
    /\ Len(requests) >= 3 /\ requests[1] = 0
    /\ requests[2] > requests[1] /\ requests[3] > requests[2]

C4_RepollIsEmpty ==
    [][ (IsPoll /\ faithful' /\ seen = Len(log)) =>
            /\ Complete(resp') => resp'.body = <<>>
            /\ stdout' = stdout
            /\ offset' = offset ]_vars

\* C4 witness: two polls in a row at the same offset of a log that did not
\* grow, after something had been printed.
C4_Witness ==
    /\ faithful /\ follow = "Polling" /\ Len(requests) >= 3
    /\ requests[Len(requests)] = requests[Len(requests) - 1]
    /\ requests[Len(requests)] > 0
    /\ seen = Len(log) /\ Complete(resp) /\ resp.body = <<>>
    /\ stdout = log

\* C5 as claimed: a session that ended on a failed poll returned an error,
\* not the Ok of a completed follow.
C5_FailureIsReturned ==
    (follow = "Done" /\ Failed(resp)) => result = "Err"

\* C24 as claimed: no log-poll response aborts the command: a response
\* without the x-text-size header, or with one that is not a number, makes
\* get_console_log return normally and the session end in Done.
C24_PollNeverAborts ==
    /\ follow # "Panicked" /\ result # "panic"
    /\ (/\ requests # <<>>
        /\ resp.sent
        /\ ~resp.x_text_size.present \/ ~resp.x_text_size.parses)
            => follow = "Done"

(***************************************************************************)
(* Properties of the job listing.                                          *)
(***************************************************************************)
IsPrefix(a, b) == Len(a) <= Len(b) /\ a = SubSeq(b, 1, Len(a))

\* the lines on stdout: each the breadcrumb tokens before a job name, and
\* the job name
RECURSIVE LinesFrom(_, _)
LinesFrom(tokens, crumbs) ==
    IF tokens = <<>> THEN <<>>
    ELSE IF Head(tokens).crumb
        THEN LinesFrom(Tail(tokens), Append(crumbs, Head(tokens).text))
    ELSE <<[breadcrumb |-> crumbs, leaf |-> Head(tokens).text]>>
            \o LinesFrom(Tail(tokens), <<>>)

PrintedLines == LinesFrom(stdout, <<>>)

\* the events of a depth-first, pre-order walk of a namespace in the
\* server's child order: a line for each job, under its folder ancestors,
\* and a request for each folder
RECURSIVE Preorder(_, _)
Preorder(jobs, ancestors) ==
    IF jobs = <<>> THEN <<>>
    ELSE LET j == Head(jobs)
         IN  (IF j.kind = "job"
              THEN <<[request |-> <<>>,
                      line |-> <<[breadcrumb |-> ancestors, leaf |-> j.name]>>]>>
              ELSE <<[request |->
                          Flat([i \in 1..(Len(ancestors) + 1) |->
                                  <<"/job/">> \o Append(ancestors, j.name)[i]])
                            \o FolderQuery,
                      line |-> <<>>]>>
                   \o Preorder(j.jobs, Append(ancestors, j.name)))
             \o Preorder(Tail(jobs), ancestors)

\* the lines, and the requests, among some events
RECURSIVE LinesOf(_)
LinesOf(events) ==
    IF events = <<>> THEN <<>>
    ELSE Head(events).line \o LinesOf(Tail(events))

RECURSIVE RequestsOf(_)
RequestsOf(events) ==
    IF events = <<>> THEN <<>>
    ELSE (IF Head(events).request = <<>> THEN <<>>
          ELSE <<Head(events).request>>) \o RequestsOf(Tail(events))

ExpectedLines == LinesOf(Preorder(ns, <<>>))

\* a line as a path: F/G/C
PathOf(line) == Join(Append(line.breadcrumb, line.leaf), "/")

PathsOf(lines) == [i \in 1..Len(lines) |-> PathOf(lines[i])]

RECURSIVE NumFolders(_)
NumFolders(jobs) ==
    IF jobs = <<>> THEN 0
    ELSE (IF Head(jobs).kind = "folder"
          THEN 1 + NumFolders(Head(jobs).jobs) ELSE 0)
         + NumFolders(Tail(jobs))

\* C6: the jobs printed so far are, as paths, the first leaf jobs of the
\* namespace in depth-first pre-order and the server's child order, and a
\* listing that returned Ok printed every leaf job once and no folder.
C6_ListingIsPreorder ==
    /\ IsPrefix(PathsOf(PrintedLines), PathsOf(ExpectedLines))
    /\ result = "Ok" => PathsOf(PrintedLines) = PathsOf(ExpectedLines)

\* C6 witness: folder F with jobs A, B and folder G with job C is listed
\* as F/A, F/B, F/G/C.
C6_Witness ==
    /\ ns = ExampleNamespace
    /\ result = "Ok"
    /\ PathsOf(PrintedLines) = << <<"F", "/", "A">>, <<"F", "/", "B">>,
                                 <<"F", "/", "G", "/", "C">> >>

\* C7: the breadcrumb printed before each job name is the names of the
\* job's folder ancestors from the root down, each once (none for a job at
\* the root), and no breadcrumb token is printed without its job name: the
\* expansion of a folder prints none.
C7_BreadcrumbIsAncestors ==
    /\ \A i \in 1..Len(PrintedLines) :
          /\ i <= Len(ExpectedLines)
          /\ PrintedLines[i].breadcrumb = ExpectedLines[i].breadcrumb
    /\ stdout # <<>> => ~stdout[Len(stdout)].crumb

\* C7 witness: a job two folders deep was printed after its two ancestors,
\* and a job at the root with no breadcrumb.
C7_Witness ==
    /\ result = "Ok"
    /\ \E i \in 1..Len(PrintedLines) : Len(PrintedLines[i].breadcrumb) = 2
    /\ \E i \in 1..Len(PrintedLines) : PrintedLines[i].breadcrumb = <<>>

\* C8: the listing returns; it issues at most one request per folder and
\* the root's, exactly that many when it returns Ok; and every rec_walk
\* frame on the stack extends its caller's path by one folder.
C8_WalkTerminates ==
    /\ <>(walk = "returned")
    /\ [](Len(queried) <= 1 + NumFolders(ns))
    /\ [](result = "Ok" => Len(queried) = 1 + NumFolders(ns))
    /\ [](\A i \in 1..(Len(stack) - 1) :
            /\ Len(stack[i + 1].inner_job) = Len(stack[i].inner_job) + 2
            /\ IsPrefix(stack[i].inner_job, stack[i + 1].inner_job))

\* C8 witness: a listing of nested folders returned.
C8_Witness ==
    /\ walk = "returned" /\ result = "Ok"
    /\ Len(queried) >= 3
    /\ Len(FolderOf(queried[Len(queried)])) >= 2

\* this step answers a request
IsAnswer == Len(inflight') < Len(inflight)

\* C9: a listing request that fails, at the root or in any folder, ends
\* the listing with the error; from then on nothing is requested or
\* printed, and a listing that returned Ok had no failed request.
C9_FailureAbortsListing ==
    [][ /\ (IsAnswer /\ reply' # "ok") =>
                (result' = "Err" /\ walk' = "returned" /\ stdout' = stdout)
        /\ result = "Err" =>
                (queried' = queried /\ stdout' = stdout /\ result' = "Err")
        /\ result' = "Ok" => reply' = "ok"
      ]_vars

\* C9 witness: the request for a folder inside a folder failed after a job
\* was printed and before the rest was.
C9_Witness ==
    /\ result = "Err" /\ walk = "returned"
    /\ Len(queried) >= 3
    /\ Len(FolderOf(queried[Len(queried)])) >= 2
    /\ stdout # <<>>
    /\ Len(PrintedLines) < Len(ExpectedLines)

\* C10: at most one request is outstanding, and what has been requested
\* and printed so far is an initial part of the depth-first walk: when the
\* request for a folder goes out, the subtree of every child before it
\* has been requested, answered and printed.
C10_OneRequestAtATime ==
    /\ Len(inflight) <= 1
    /\ queried = <<>> => (stdout = <<>> /\ inflight = <<>>)
    /\ queried # <<>> =>
        /\ queried[1] = ListQuery
        /\ \E n \in 0..Len(Preorder(ns, <<>>)) :
            LET done == SubSeq(Preorder(ns, <<>>), 1, n)
            IN  /\ RequestsOf(done) = Tail(queried)
                /\ LinesOf(done) = PrintedLines
                /\ inflight # <<>> =>
                      /\ inflight[1] = queried[Len(queried)]
                      /\ Len(queried) > 1 => (n > 0 /\ done[n].request = inflight[1])

\* C10 witness: the request for a second folder is outstanding, after the
\* folder before it was expanded and its job printed.
C10_Witness ==
    /\ Len(inflight) = 1
    /\ Len(queried) = 3
    /\ Len(FolderOf(inflight[1])) = 1
    /\ Len(FolderOf(queried[2])) = 1
    /\ Len(PrintedLines) = 1

(***************************************************************************)
(* Jenkins::get_json_data: one response collected into a buffer.           *)
(***************************************************************************)
\* most frames in a response body
MaxFrames == 3

\* the follow session and the job listing, when the command is another
FollowIdle ==
    /\ log = <<>>
    /\ building = FALSE
    /\ offset = 0
    /\ follow = "Idle"
    /\ requests = <<>>
    /\ resp = NoResponse
    /\ seen = -1
    /\ faithful = TRUE

WalkIdle ==
    /\ ns = <<>>
    /\ walk = "idle"
    /\ stack = <<>>
    /\ inflight = <<>>
    /\ queried = <<>>
    /\ reply = "none"

\* StatusCode::NOT_FOUND                                     jenkins.rs:135
NOT_FOUND == 404

\* the statuses a server answers with
Statuses == {200, 401, 403, NOT_FOUND, 500}

\* the data of a frame: "ab", "cd", "ef"
Chunks == {<<97, 98>>, <<99, 100>>, <<101, 102>>}

DataFrames == [kind : {"data"}, bytes : Chunks]

\* what can end a body early or follow its data: the trailers, which are a
\* frame without data, and a read that fails
LastFrames == {[kind |-> "trailers", bytes |-> <<>>],
               [kind |-> "error", bytes |-> <<>>]}

RECURSIVE DataBodies(_)
DataBodies(n) ==
    IF n = 0 THEN {<<>>}
    ELSE DataBodies(n - 1)
            \cup {Append(b, f) : b \in {c \in DataBodies(n - 1) : Len(c) = n - 1},
                                 f \in DataFrames}

\* every body of at most MaxFrames frames
Bodies ==
    DataBodies(MaxFrames)
        \cup {Append(b, f) : b \in DataBodies(MaxFrames - 1), f \in LastFrames}

\* what send_request resolves to: no response (connect, handshake or send
\* failed), or a response with a status and a body         jenkins.rs:81-129
CollectResponses ==
    {[sent |-> FALSE, status |-> 0, frames |-> <<>>]}
        \cup [sent : {TRUE}, status : Statuses, frames : Bodies]

\* Frame::data_ref: the chunk of a data frame, nothing of any other frame
data_ref(frame) == IF frame.kind = "data" THEN frame.bytes ELSE <<>>

\* writer.write_all(chunk)                                   jenkins.rs:145
write_over(buf, chunk) == chunk
write_all(buf, chunk) == buf \o chunk

\* the Err of `next?` on a frame that failed to arrive       jenkins.rs:143
frame_err_partial(buf) == [tag |-> "Ok", error |-> "", bytes |-> buf]
frame_err(buf) == [tag |-> "Err", error |-> "hyper", bytes |-> <<>>]

\* the Err of a 404 status: its message is the status code   jenkins.rs:136
not_found_as_hyper(status) ==
    [tag |-> "Err", error |-> "hyper", bytes |-> <<>>]
not_found(status) ==
    [tag |-> "Err", error |-> IF status = 404 THEN "404" ELSE "status",
     bytes |-> <<>>]

\* what a call of get_json_data leaves alone
collectRest == <<followVars, walkVars, stdout, result,
                 downloadVars, parseVars, pathVars, rebuildVars, laterVars>>

CollectInit ==
    /\ res \in CollectResponses
    /\ nread = 0
    /\ writer = <<>>
    /\ collected = [tag |-> "none", error |-> "", bytes |-> <<>>]
    /\ stdout = <<>>
    /\ result = "running"
    /\ FollowIdle /\ WalkIdle
    /\ DownloadIdle /\ ParseIdle /\ PathIdle /\ RebuildIdle /\ LaterIdle

\* the status that makes get_json_data fail                 jenkins.rs:135
is_error_status(status) == status >= 400
is_not_found(status) == status = NOT_FOUND

\* send_request is awaited and the status looked at     jenkins.rs:132-137
Status ==
    /\ collected.tag = "none"
    /\ collected' =
          IF ~res.sent THEN [tag |-> "Err", error |-> "hyper", bytes |-> <<>>]
          ELSE IF is_not_found(res.status) THEN not_found(res.status)
          ELSE [tag |-> "reading", error |-> "", bytes |-> <<>>]
    /\ UNCHANGED <<res, nread, writer, collectRest>>

\* one turn of `while let Some(next) = res.frame().await`   jenkins.rs:142-147
Frame ==
    /\ collected.tag = "reading"
    /\ nread < Len(res.frames)
    /\ LET next == res.frames[nread + 1]
       IN  /\ nread' = nread + 1
           /\ IF next.kind = "error"
              THEN collected' = frame_err(writer) /\ UNCHANGED writer
              ELSE /\ writer' = write_all(writer, data_ref(next))
                   /\ UNCHANGED collected
    /\ UNCHANGED <<res, collectRest>>

\* the body is over: flush and Ok(writer)                   jenkins.rs:148-150
Flush ==
    /\ collected.tag = "reading"
    /\ nread = Len(res.frames)
    /\ collected' = [tag |-> "Ok", error |-> "", bytes |-> writer]
    /\ UNCHANGED <<res, nread, writer, collectRest>>

CollectNext == Status \/ Frame \/ Flush

CollectSpec == CollectInit /\ [][CollectNext]_vars


(***************************************************************************)
(* Properties of get_json_data.                                            *)
(***************************************************************************)
\* the chunks of the data frames among some frames, in order
RECURSIVE DataOf(_)
DataOf(frames) ==
    IF frames = <<>> THEN <<>>
    ELSE (IF Head(frames).kind = "data" THEN Head(frames).bytes ELSE <<>>)
            \o DataOf(Tail(frames))

HasError(frames) == \E i \in 1..Len(frames) : frames[i].kind = "error"

\* C11: for a response whose status is not 404 and whose frames all
\* arrive, the buffer holds the data of the frames read so far, in arrival
\* order, and get_json_data returns Ok with the data of all of them; a
\* frame that is not data adds nothing.
C11_CollectIsConcatenation ==
    (res.sent /\ res.status # NOT_FOUND) =>
        /\ writer = DataOf(SubSeq(res.frames, 1, nread))
        /\ (collected.tag \in {"Ok", "Err"} /\ ~HasError(res.frames)) =>
                collected = [tag |-> "Ok", error |-> "",
                             bytes |-> DataOf(res.frames)]

\* C11 witness: the body "ab", "cd", "ef" was collected as "abcdef".
C11_Witness ==
    /\ res.sent /\ res.status = 200
    /\ [i \in 1..Len(res.frames) |-> res.frames[i].bytes]
            = << <<97, 98>>, <<99, 100>>, <<101, 102>> >>
    /\ collected = [tag |-> "Ok", error |-> "",
                    bytes |-> <<97, 98, 99, 100, 101, 102>>]

\* C12: a response with status 404 makes get_json_data fail with the error
\* "404", which no other failure carries, and with no byte of the body:
\* no frame of it is read.
C12_NotFoundIsDistinct ==
    /\ (res.sent /\ res.status = NOT_FOUND /\ collected.tag # "none") =>
            /\ collected = [tag |-> "Err", error |-> "404", bytes |-> <<>>]
            /\ nread = 0 /\ writer = <<>>
    /\ (collected.tag = "Err" /\ collected.error = "404") =>
            (res.sent /\ res.status = NOT_FOUND)

\* C12 witness: a 404 response with a body failed with "404".
C12_Witness ==
    /\ res.sent /\ res.status = NOT_FOUND /\ res.frames # <<>>
    /\ collected.tag = "Err" /\ collected.error = "404"

\* C13: once a frame of the body failed to arrive, get_json_data has
\* failed with the transfer error and without the bytes collected before;
\* and Ok is returned only with the data of a body read to its end.
C13_MidStreamFailureReturnsNothing ==
    /\ (nread > 0 /\ res.frames[nread].kind = "error") =>
            collected = [tag |-> "Err", error |-> "hyper", bytes |-> <<>>]
    /\ collected.tag = "Ok" =>
            (nread = Len(res.frames) /\ ~HasError(res.frames))

\* C13 witness: the third frame failed after two chunks were buffered.
C13_Witness ==
    /\ nread = 3 /\ res.frames[3].kind = "error"
    /\ Len(writer) = 4
    /\ collected.tag = "Err"

(***************************************************************************)
(* handle, JobAction::Download of BuildItem::Artifact over a range.        *)
(***************************************************************************)
\* largest build number of a range
MaxBuild == 3

\* the archive of a build
Archive == <<80, 75>>

\* what get_json_data returns for archive.zip of one build: the archive,
\* the 404 of a build without artifacts, or a transport failure
ArtifactAnswers ==
    {[tag |-> "Ok", error |-> "", bytes |-> Archive],
     not_found(NOT_FOUND),
     frame_err(<<>>)}

\* File::create and write_all: done, or failed      args.rs:471-474
FileOutcomes == {"written", "io error"}

\* the Err arm of the match on get_json_data: log::error! and go on
\*                                                         args.rs:475-478
ErrArmAborts(e) == "return"
ErrArm(e) == "continue"

\* the builds of `for build in start..end`                     args.rs:453
RECURSIVE BuildsFrom(_, _)
BuildsFrom(start, end) ==
    IF start >= end THEN <<>>
    ELSE <<start>> \o BuildsFrom(start + 1, end)

\* what the download leaves alone
downloadRest == <<followVars, walkVars, stdout, res, nread, writer,
                  parseVars, pathVars, rebuildVars, laterVars>>

DownloadInit ==
    /\ range \in [start : 0..MaxBuild, end : 0..MaxBuild]
    /\ build = range.start
    /\ fetched = <<>>
    /\ files = <<>>
    /\ errlog = <<>>
    /\ dl = "running"
    /\ stdout = <<>>
    /\ result = "running"
    /\ FollowIdle /\ WalkIdle
    /\ CollectIdle /\ ParseIdle /\ PathIdle /\ RebuildIdle /\ LaterIdle

\* one iteration of the loop: the request, and the arm of the match
FetchArtifact ==
    /\ dl = "running"
    /\ build < range.end
    /\ fetched' = Append(fetched, build)
    /\ \E data \in ArtifactAnswers, file \in FileOutcomes :
        /\ collected' = data
        /\ IF data.tag = "Ok"
           THEN /\ UNCHANGED errlog
                /\ IF file = "written"
                   THEN /\ files' = Append(files, build)
                        /\ build' = build + 1
                        /\ UNCHANGED <<dl, result>>
                   ELSE \* File::create(..)? or write_all(..)?
                        /\ dl' = "returned"
                        /\ result' = "Err"
                        /\ UNCHANGED <<files, build>>
           ELSE /\ UNCHANGED files
                /\ IF ErrArm(data.error) = "continue"
                   THEN /\ errlog' = Append(errlog, [build |-> build,
                                                     error |-> data.error])
                        /\ build' = build + 1
                        /\ UNCHANGED <<dl, result>>
                   ELSE /\ dl' = "returned"
                        /\ result' = "Err"
                        /\ UNCHANGED <<errlog, build>>
    /\ UNCHANGED <<range, downloadRest>>

\* the range is exhausted; handle returns Ok(())               args.rs:559
DownloadDone ==
    /\ dl = "running"
    /\ build >= range.end
    /\ dl' = "returned"
    /\ result' = "Ok"
    /\ UNCHANGED <<range, build, fetched, files, errlog, collected,
                   downloadRest>>

DownloadNext == FetchArtifact \/ DownloadDone

DownloadSpec == DownloadInit /\ [][DownloadNext]_vars

\* every request is answered and the command's task is scheduled
DownloadFairSpec == DownloadSpec /\ WF_vars(DownloadNext)

(***************************************************************************)
(* Properties of the artifact download.                                    *)
(***************************************************************************)
\* this step is a request answered with the 404 error
IsNotFound == fetched' # fetched /\ collected'.error = "404"

\* C14: the builds requested are always the first of start..end-1, in
\* ascending order and each once; a request answered with 404 is logged
\* and the loop goes on to the next build; the download ends, and when it
\* ended Ok every build of the range was requested.
C14_NotFoundDoesNotAbort ==
    /\ [](fetched = SubSeq(BuildsFrom(range.start, range.end), 1, Len(fetched)))
    /\ [][IsNotFound => /\ dl' = "running" /\ result' = "running"
                        /\ build' = build + 1
                        /\ errlog' = Append(errlog, [build |-> build,
                                                     error |-> "404"])]_vars
    /\ [](result = "Ok" => fetched = BuildsFrom(range.start, range.end))
    /\ <>(dl = "returned")

\* C14 witness: of three builds the second answered 404, and the first and
\* the third were written.
C14_Witness ==
    /\ dl = "returned" /\ result = "Ok"
    /\ Len(fetched) = 3
    /\ files = <<fetched[1], fetched[3]>>
    /\ errlog = <<[build |-> fetched[2], error |-> "404"]>>

(***************************************************************************)
(* BuildParam::from_str.  A u64 is the sequence of its decimal digits,     *)
(* without leading zeros, so that it keeps its 64 bits.                    *)
(***************************************************************************)
\* longest token made of TokenChars
MaxToken == 5

DigitChars == <<"0", "1", "2", "3", "4", "5", "6", "7", "8", "9">>

IsDigit(c) == \E d \in 1..Len(DigitChars) : DigitChars[d] = c

DigitValue(c) == (CHOOSE d \in 1..Len(DigitChars) : DigitChars[d] = c) - 1

\* u64::MAX, 2^64 - 1
U64_MAX == <<1, 8, 4, 4, 6, 7, 4, 4, 0, 7, 3, 7, 0, 9, 5, 5, 1, 6, 1, 5>>

\* digits without their leading zeros
RECURSIVE Normalize(_)
Normalize(ds) ==
    IF Len(ds) > 1 /\ Head(ds) = 0 THEN Normalize(Tail(ds)) ELSE ds

\* a < b, on normalized digits
NumLess(a, b) ==
    \/ Len(a) < Len(b)
    \/ /\ Len(a) = Len(b)
       /\ \E i \in 1..Len(a) :
            /\ a[i] < b[i]
            /\ \A j \in 1..(i - 1) : a[j] = b[j]

\* n + 1, on digits
RECURSIVE Succ(_)
Succ(ds) ==
    IF ds = <<>> THEN <<1>>
    ELSE IF ds[Len(ds)] < 9
        THEN SubSeq(ds, 1, Len(ds) - 1) \o <<ds[Len(ds)] + 1>>
    ELSE Succ(SubSeq(ds, 1, Len(ds) - 1)) \o <<0>>

\* the digit loop of u64::from_str: checked multiply and add
RECURSIVE Accumulate(_, _)
Accumulate(chars, acc) ==
    IF chars = <<>> THEN [ok |-> TRUE, value |-> acc, error |-> ""]
    ELSE IF ~IsDigit(Head(chars))
        THEN [ok |-> FALSE, value |-> <<>>, error |-> "InvalidDigit"]
    ELSE LET next == Normalize(Append(acc, DigitValue(Head(chars))))
         IN  IF NumLess(U64_MAX, next)
             THEN [ok |-> FALSE, value |-> <<>>, error |-> "PosOverflow"]
             ELSE Accumulate(Tail(chars), next)

\* str::parse::<u64>: an optional + and at least one digit
parse_u64(src) ==
    IF src = <<>> THEN [ok |-> FALSE, value |-> <<>>, error |-> "Empty"]
    ELSE IF src = <<"+">> \/ src = <<"-">>
        THEN [ok |-> FALSE, value |-> <<>>, error |-> "InvalidDigit"]
    ELSE Accumulate(IF Head(src) = "+" THEN Tail(src) ELSE src, <<0>>)

\* str::contains(pat)
contains(src, pat) ==
    \E i \in 1..(Len(src) - Len(pat) + 1) :
        SubSeq(src, i, i + Len(pat) - 1) = pat

\* str::split_once(sep), field .0: what precedes the first sep
BeforeFirst(src, sep) ==
    LET at == CHOOSE i \in 1..Len(src) :
                  src[i] = sep /\ \A j \in 1..(i - 1) : src[j] # sep
    IN  SubSeq(src, 1, at - 1)

Range(start, end) == [tag |-> "Range", a |-> start, b |-> end, error |-> ""]

Once(num) == [tag |-> "Once", a |-> num, b |-> <<>>, error |-> ""]

ParseIntError(e) == [tag |-> "Err", a |-> <<>>, b |-> <<>>, error |-> e]

\* the first test of from_str                                   args.rs:269
IsExclusiveAny(src) == contains(src, <<".", ".">>)
IsExclusive(src) ==
    contains(src, <<".", ".">>) /\ ~contains(src, <<".", ".", "=">>)

\* `end + 1` on a u64: past u64::MAX a build with overflow checks panics
\* and a build without them wraps to 0                           args.rs:280
PlusOne(end) ==
    IF end = U64_MAX
    THEN {[tag |-> "panic", a |-> <<>>, b |-> <<>>, error |-> "overflow"],
          [tag |-> "wrapped", a |-> <<>>, b |-> <<0>>, error |-> ""]}
    ELSE {[tag |-> "sum", a |-> <<>>, b |-> Succ(end), error |-> ""]}

\* BuildParam::from_str: the values it can return          args.rs:268-285
from_str(src) ==
    IF IsExclusive(src)
    THEN LET start == parse_u64(BeforeFirst(src, "."))
             end   == parse_u64(AfterLast(src, "."))
         IN  IF ~start.ok THEN {ParseIntError(start.error)}
             ELSE IF ~end.ok THEN {ParseIntError(end.error)}
             ELSE {Range(start.value, end.value)}
    ELSE IF contains(src, <<".", ".", "=">>)
    THEN LET start == parse_u64(BeforeFirst(src, "."))
             end   == parse_u64(AfterLast(src, "="))
         IN  IF ~start.ok THEN {ParseIntError(start.error)}
             ELSE IF ~end.ok THEN {ParseIntError(end.error)}
             ELSE {IF sum.tag = "panic" THEN sum
                   ELSE Range(start.value, sum.b) : sum \in PlusOne(end.value)}
    ELSE LET num == parse_u64(src)
         IN  IF ~num.ok THEN {ParseIntError(num.error)}
             ELSE {Once(num.value)}

\* the characters short tokens are made of
TokenChars == {"1", "5", ".", "=", "a", "+"}

RECURSIVE Strings(_, _)
Strings(chars, n) ==
    IF n = 0 THEN {<<>>}
    ELSE Strings(chars, n - 1)
            \cup {Append(t, c) : t \in {u \in Strings(chars, n - 1) : Len(u) = n - 1},
                                 c \in chars}

\* the decimal text of u64::MAX, and of u64::MAX + 1
MaxText == <<"1", "8", "4", "4", "6", "7", "4", "4", "0", "7",
             "3", "7", "0", "9", "5", "5", "1", "6", "1", "5">>

OverText == SubSeq(MaxText, 1, 19) \o <<"6">>

\* tokens that TokenChars and MaxToken leave out
LongTokens ==
    {<<"a", "b", "c">>, <<"0", "0", "7">>, <<"0", ".", ".", "0">>,
     <<"1", ".", ".", "2", ".", ".", "5">>,
     <<"1", ".", ".", "a", ".", ".", "=", "5">>,
     MaxText, OverText,
     <<"1", ".", ".">> \o MaxText,
     <<"1", ".", ".", "=">> \o MaxText,
     <<"1", ".", ".", "=">> \o OverText,
     <<"1", ".", ".", "=">> \o SubSeq(MaxText, 1, 19) \o <<"4">>}

Tokens == Strings(TokenChars, MaxToken) \cup LongTokens

\* what a call of from_str leaves alone
parseRest == <<followVars, walkVars, stdout, result,
               collectVars, downloadVars, pathVars, rebuildVars, laterVars>>

ParseInit ==
    /\ token \in Tokens
    /\ parsed = [tag |-> "none", a |-> <<>>, b |-> <<>>, error |-> ""]
    /\ stdout = <<>>
    /\ result = "running"
    /\ FollowIdle /\ WalkIdle
    /\ CollectIdle /\ DownloadIdle /\ PathIdle /\ RebuildIdle /\ LaterIdle

\* build.parse::<BuildParam>()                                  args.rs:450
Parse ==
    /\ parsed.tag = "none"
    /\ parsed' \in from_str(token)
    /\ UNCHANGED <<token, parseRest>>

ParseNext == Parse

ParseSpec == ParseInit /\ [][ParseNext]_vars

(***************************************************************************)
(* Properties of BuildParam::from_str.                                     *)
(***************************************************************************)
\* a bare non-negative integer: one decimal digit or more
IsNumeral(src) == src # <<>> /\ \A i \in 1..Len(src) : IsDigit(src[i])

\* the number a numeral denotes
Value(src) == Normalize([i \in 1..Len(src) |-> DigitValue(src[i])])

\* a numeral of a number that a u64 holds
IsU64(src) == IsNumeral(src) /\ ~NumLess(U64_MAX, Value(src))

\* the token is x, marker, y
Splits(src, marker) ==
    {[x |-> SubSeq(src, 1, i - 1), y |-> SubSeq(src, i + Len(marker), Len(src))] :
        i \in {j \in 1..(Len(src) - Len(marker) + 1) :
                    SubSeq(src, j, j + Len(marker) - 1) = marker}}

\* C15: once parsed, a numeral n is Once(n); a..b is Range(a, b); a..=b is
\* Range(a, b + 1); and a token that contains ..= and parsed as a range
\* has the number after its last = , plus one, as its end: the exclusive
\* rule never reads it.  The numbers are those a u64 holds, b + 1 included.
C15_ParsesTheThreeForms ==
    parsed.tag # "none" =>
        /\ IsU64(token) => parsed = Once(Value(token))
        /\ \A t \in Splits(token, <<".", ".">>) :
              (IsU64(t.x) /\ IsU64(t.y)) => parsed = Range(Value(t.x), Value(t.y))
        /\ \A t \in Splits(token, <<".", ".", "=">>) :
              (IsU64(t.x) /\ IsU64(t.y) /\ Value(t.y) # U64_MAX)
                  => parsed = Range(Value(t.x), Succ(Value(t.y)))
        /\ (contains(token, <<".", ".", "=">>) /\ parsed.tag = "Range") =>
              LET y == AfterLast(token, "=")
                  n == IF y # <<>> /\ Head(y) = "+" THEN Tail(y) ELSE y
              IN  /\ IsU64(n)
                  /\ Value(n) # U64_MAX => parsed.b = Succ(Value(n))

\* C15 witness: "1..=5" parsed to Range(1, 6).
C15_Witness ==
    /\ token = <<"1", ".", ".", "=", "5">>
    /\ parsed = Range(<<1>>, <<6>>)

\* an integer as the parser reads one: a numeral, or + and a numeral
IsInteger(src) ==
    \/ IsNumeral(src)
    \/ Len(src) > 1 /\ Head(src) = "+" /\ IsNumeral(Tail(src))

\* an integer, start..end or start..=end
WellFormed(src) ==
    \/ IsInteger(src)
    \/ \E t \in Splits(src, <<".", ".">>) : IsInteger(t.x) /\ IsInteger(t.y)
    \/ \E t \in Splits(src, <<".", ".", "=">>) : IsInteger(t.x) /\ IsInteger(t.y)

\* C16 as claimed: every token that is neither an integer nor exactly
\* start..end or start..=end is rejected with an error.
C16_MalformedIsRejected ==
    (parsed.tag # "none" /\ ~WellFormed(token)) => parsed.tag = "Err"

\* C17 as claimed: a range parsed from a literal a..b or a..=b ends above
\* its start, whatever a and b are.
C17_RangeEndsAboveStart ==
    (/\ parsed.tag = "Range"
     /\ \/ \E t \in Splits(token, <<".", ".">>) : IsU64(t.x) /\ IsU64(t.y)
        \/ \E t \in Splits(token, <<".", ".", "=">>) :
              IsU64(t.x) /\ IsU64(t.y) /\ Value(t.y) # U64_MAX)
        => NumLess(parsed.a, parsed.b)

\* C26 as claimed: every literal a..=b whose bounds a u64 holds, b =
\* 2^64 - 1 included, is parsed to Range(a, b + 1) with b + 1 the integer
\* after b: the end never wraps and the parser never aborts.
C26_InclusiveEndIsExact ==
    parsed.tag # "none" =>
        \A t \in Splits(token, <<".", ".", "=">>) :
            (IsU64(t.x) /\ IsU64(t.y))
                => parsed = Range(Value(t.x), Succ(Value(t.y)))

(***************************************************************************)
(* Tree::build_path, Jenkins::build and Jenkins::remove: from the job      *)
(* argument to the path of the request.  The piece "job/" of a path is     *)
(* one token, so that it cannot be mistaken for the text of a component.   *)
(***************************************************************************)
\* longest job argument
MaxPath == 4

PathChars == {"a", "b", "/", "."}

\* the job arguments
Paths == Strings(PathChars, MaxPath)

\* the queries build_path is called on: none (kill without a build), the
\* job listing's, a build's console text
Queries == {<<>>, <<"api/json">>, <<"1", "/", "consoleText">>}

\* Vec::reverse                                               jenkins.rs:32
RECURSIVE reverse(_)
reverse(v) ==
    IF v = <<>> THEN <<>> ELSE Append(reverse(Tail(v)), Head(v))

\* the loop of build_path: each component is inserted, with its marker,
\* in front of what is there                              jenkins.rs:34-36
RECURSIVE insert_components(_, _)
insert_components(components, query) ==
    IF components = <<>> THEN query
    ELSE insert_components(Tail(components),
                           <<"job/">> \o Head(components) \o <<"/">> \o query)

\* Tree::build_path                                       jenkins.rs:26-39
build_path(query, path) == insert_components(reverse(PathIter(path)), query)

\* Path::components mapped to "job/{}/" and collected     jenkins.rs:264-267
path_components(path) ==
    LET components == PathIter(path)
    IN  Flat([i \in 1..Len(components) |->
                <<"job/">> \o components[i] \o <<"/">>])

\* the request a call ends in: its method and the path after "{url}/"
Request(method, url, query) ==
    [tag |-> "request", method |-> method, url |-> url, query |-> query]

\* what a call on a job argument leaves alone
pathRest == <<followVars, walkVars, stdout, result,
              collectVars, downloadVars, parseVars, rebuildVars, laterVars>>

PathInit ==
    /\ job_arg \in Paths
    /\ caller = "none"
    /\ sent = [tag |-> "none", method |-> "", url |-> <<>>, query |-> <<>>]
    /\ stdout = <<>>
    /\ result = "running"
    /\ FollowIdle /\ WalkIdle
    /\ CollectIdle /\ DownloadIdle /\ ParseIdle /\ RebuildIdle /\ LaterIdle

\* Tree::new(query).build_path(&job), then get_json_data's GET of it
\*                                        args.rs:520, jenkins.rs:132-133
CallBuildPath ==
    /\ caller = "none"
    /\ caller' = "build_path"
    /\ \E query \in Queries :
          sent' = Request("GET", build_path(query, job_arg), query)
    /\ UNCHANGED <<job_arg, pathRest>>

\* jenkins.build(&job, params) without parameters       jenkins.rs:263-291
CallBuild ==
    /\ caller = "none"
    /\ caller' = "build"
    /\ sent' = Request("POST",
                       path_components(job_arg) \o <<"build?delay=0sec">>,
                       <<"build?delay=0sec">>)
    /\ UNCHANGED <<job_arg, pathRest>>

\* jenkins.remove(&job)                                 jenkins.rs:293-302
CallRemove ==
    /\ caller = "none"
    /\ caller' = "remove"
    /\ sent' = Request("DELETE", path_components(job_arg), <<>>)
    /\ UNCHANGED <<job_arg, pathRest>>

PathNext == CallBuildPath \/ CallBuild \/ CallRemove

PathSpec == PathInit /\ [][PathNext]_vars

(***************************************************************************)
(* Properties of the request paths.                                        *)
(***************************************************************************)
\* the non-empty segments of a slash-separated path
Segments(path) == Without(Split(path, "/"), {<<>>})

\* "job/s1/job/s2/.../job/sn/"
Rendered(segments) ==
    Flat([i \in 1..Len(segments) |-> <<"job/">> \o segments[i] \o <<"/">>])

IsDots(segment) == segment \in {<<".">>, <<".", ".">>}

\* C18 as claimed: for a job path with n >= 1 non-empty segments, written
\* with leading, trailing or repeated separators or without, build_path
\* yields job/s1/job/s2/.../job/sn/ and then the query, unchanged.  (The
\* paths with a . or .. segment are left to C19.)
C18_BuildPathRendersSegments ==
    (/\ caller = "build_path"
     /\ Segments(job_arg) # <<>>
     /\ \A i \in 1..Len(Segments(job_arg)) : ~IsDots(Segments(job_arg)[i]))
        => sent.url = Rendered(Segments(job_arg)) \o sent.query

\* C19 as claimed: a job argument that is empty, or made of . and ..
\* components only, is rejected with an error by build_path, build and
\* remove, and no request is issued for it.
C19_EmptyPathIsRejected ==
    (/\ caller # "none"
     /\ \/ job_arg = <<>>
        \/ /\ Segments(job_arg) # <<>>
           /\ \A i \in 1..Len(Segments(job_arg)) : IsDots(Segments(job_arg)[i]))
        => sent.tag = "Err"

(***************************************************************************)
(* handle, JobAction::Rebuild: the parameters action is looked up in the   *)
(* build's actions and asked for by its index.                             *)
(***************************************************************************)
\* longest actions array
MaxActions == 4

\* the elements of the array as serde_json prints them; with tree=actions
\* the server sends the class of each action, or an empty object
ActionTexts ==
    {<<"{\"_class\":\"hudson.model.", "ParametersAction", "\"}">>,
     <<"{\"_class\":\"hudson.model.", "CauseAction", "\"}">>,
     <<"{}">>}

\* class.to_string().contains("ParametersAction")              args.rs:527
is_any_action(class) == TRUE
is_parameters_action(class) == contains(class, <<"ParametersAction">>)

\* HashMap::insert: the value of the key is replaced
insert(map, key, value) == {p \in map : p[1] # key} \cup {<<key, value>>}

\* the two queries of the rebuild                      args.rs:519, 530-533
ActionsTree == [query |-> "api/json?tree=actions", index |-> -1]

ParametersTree(index) ==
    [query |-> "api/json?tree=actions[parameters[name,value]]",
     index |-> index]

\* what the rebuild leaves alone
rebuildRest == <<followVars, walkVars, stdout,
                 collectVars, downloadVars, parseVars, pathVars, laterVars>>

RebuildInit ==
    /\ actions \in Strings(ActionTexts, MaxActions)
    /\ idx = 0
    /\ param_actions_truth = {}
    /\ trees = <<>>
    /\ stdout = <<>>
    /\ result = "running"
    /\ FollowIdle /\ WalkIdle
    /\ CollectIdle /\ DownloadIdle /\ ParseIdle /\ PathIdle /\ LaterIdle

\* the actions are requested and decoded, or that fails  args.rs:519-524
QueryActions ==
    /\ result = "running"
    /\ trees = <<>>
    /\ trees' = <<ActionsTree>>
    /\ \E ok \in BOOLEAN : result' = IF ok THEN "running" ELSE "Err"
    /\ UNCHANGED <<actions, idx, param_actions_truth, rebuildRest>>

\* one turn of the loop over the enumerated actions      args.rs:526-528
ScanAction ==
    /\ result = "running"
    /\ Len(trees) = 1
    /\ idx < Len(actions)
    /\ param_actions_truth' =
          insert(param_actions_truth, is_parameters_action(actions[idx + 1]), idx)
    /\ idx' = idx + 1
    /\ UNCHANGED <<actions, trees, result, rebuildRest>>

\* the second query, with param_actions_truth.get(&true).unwrap()
\*                                                       args.rs:530-535
QueryParameters ==
    /\ result = "running"
    /\ Len(trees) = 1
    /\ idx = Len(actions)
    /\ IF \E p \in param_actions_truth : p[1]
       THEN /\ trees' = Append(trees, ParametersTree(
                    (CHOOSE p \in param_actions_truth : p[1])[2]))
            /\ UNCHANGED result
       ELSE /\ result' = "panic"
            /\ UNCHANGED trees
    /\ UNCHANGED <<actions, idx, param_actions_truth, rebuildRest>>

\* the parameters are read and the build is posted, or that fails
\*                                                       args.rs:537-553
PostRebuild ==
    /\ result = "running"
    /\ Len(trees) = 2
    /\ result' \in {"Ok", "Err"}
    /\ UNCHANGED <<actions, idx, param_actions_truth, trees, rebuildRest>>

RebuildNext == QueryActions \/ ScanAction \/ QueryParameters \/ PostRebuild

RebuildSpec == RebuildInit /\ [][RebuildNext]_vars

(***************************************************************************)
(* Properties of the rebuild.                                              *)
(***************************************************************************)
\* the positions, from 0, of the actions whose class has ParametersAction
ParameterPositions ==
    {i \in 0..(Len(actions) - 1) :
        \E k \in 1..Len(actions[i + 1]) : actions[i + 1][k] = "ParametersAction"}

\* C20: when exactly one action's class contains ParametersAction, at
\* position i, the second query is issued with {i}, wherever i is in the
\* array and whatever the other actions are.
C20_SelectsTheParametersAction ==
    \A i \in 0..(Len(actions) - 1) :
        (ParameterPositions = {i} /\ Len(trees) = 2) => trees[2].index = i

\* C20 witness: the parameters action is the third of four, and the second
\* query was issued with {2}.
C20_Witness ==
    /\ Len(actions) = 4
    /\ ParameterPositions = {2}
    /\ Len(trees) = 2 /\ trees[2].index = 2
    /\ result = "Ok"

(***************************************************************************)
(* Jenkins::system on a node-info payload: busyExecutors and               *)
(* totalExecutors through the NodesInfo record and back.                   *)
(***************************************************************************)
\* largest executor count below the boundary values
MaxExecutors == 10

\* u16::MAX and u32::MAX
U16_MAX == <<6, 5, 5, 3, 5>>

U32_MAX == <<4, 2, 9, 4, 9, 6, 7, 2, 9, 5>>

\* the decimal digits of n
RECURSIVE Digits(_)
Digits(n) == IF n < 10 THEN <<n>> ELSE Append(Digits(n \div 10), n % 10)

\* the text of a number
ToText(value) == [i \in 1..Len(value) |-> DigitChars[value[i] + 1]]

\* the counts a server reports: small ones, and those around the widths
\* of the record's fields, up to the largest int of the server
ExecutorCounts ==
    {ToText(Digits(n)) : n \in (0..MaxExecutors) \cup {65535, 65536, 2147483647}}

Payloads == [busyExecutors : ExecutorCounts, totalExecutors : ExecutorCounts]

\* serde_json reads the number and the field's type takes it if it fits
deserialize_uint(text, max) ==
    LET number == Accumulate(text, <<0>>)
    IN  IF number.ok /\ NumLess(max, number.value)
        THEN [ok |-> FALSE, value |-> <<>>, error |-> "invalid value"]
        ELSE number

\* Jenkins::system::<NodesInfo>: busy_executors is a u32, total_executors
\* a u16                                    jenkins.rs:254-261, node.rs:5-10
system(json) ==
    LET busy  == deserialize_uint(json.busyExecutors, U32_MAX)
        total == deserialize_uint(json.totalExecutors, U16_MAX)
    IN  IF busy.ok /\ total.ok
        THEN [tag |-> "Ok", busy_executors |-> busy.value,
              total_executors |-> total.value]
        ELSE [tag |-> "Err", busy_executors |-> <<>>, total_executors |-> <<>>]

\* the derived Serialize of NodesInfo, camelCase            node.rs:3-4
serialize(info) ==
    [tag |-> "Ok", busyExecutors |-> ToText(info.busy_executors),
     totalExecutors |-> ToText(info.total_executors)]

\* what the decoding leaves alone
nodeInfoRest == <<followVars, walkVars, stdout, collectVars, downloadVars,
                  parseVars, pathVars, rebuildVars, consumed, nodeSetVars,
                  buildVars>>

NodeInfoInit ==
    /\ payload \in Payloads
    /\ node_info = [tag |-> "none", busy_executors |-> <<>>,
                    total_executors |-> <<>>]
    /\ reserialized = [tag |-> "none", busyExecutors |-> <<>>,
                       totalExecutors |-> <<>>]
    /\ stdout = <<>>
    /\ result = "running"
    /\ FollowIdle /\ WalkIdle
    /\ CollectIdle /\ DownloadIdle /\ ParseIdle /\ PathIdle /\ RebuildIdle
    /\ ConsumedIdle /\ NodeSetIdle /\ BuildIdle

\* Jenkins::system::<node::Info>(json_data)?                    args.rs:341
DecodeNodeInfo ==
    /\ node_info.tag = "none"
    /\ node_info' = system(payload)
    /\ result' = IF system(payload).tag = "Ok" THEN "running" ELSE "Err"
    /\ UNCHANGED <<payload, reserialized, nodeInfoRest>>

\* the record is serialized again
SerializeNodeInfo ==
    /\ node_info.tag = "Ok"
    /\ reserialized.tag = "none"
    /\ reserialized' = serialize(node_info)
    /\ result' = "Ok"
    /\ UNCHANGED <<payload, node_info, nodeInfoRest>>

NodeInfoNext == DecodeNodeInfo \/ SerializeNodeInfo

NodeInfoSpec == NodeInfoInit /\ [][NodeInfoNext]_vars

(***************************************************************************)
(* Properties of the node-info record.                                     *)
(***************************************************************************)
\* C21 as claimed: every payload is decoded, whatever counts the server
\* reports, and the record serialized again has the busyExecutors and the
\* totalExecutors of the payload.
C21_ExecutorsRoundTrip ==
    /\ node_info.tag # "none" => node_info.tag = "Ok"
    /\ reserialized.tag = "Ok" =>
          /\ reserialized.busyExecutors = payload.busyExecutors
          /\ reserialized.totalExecutors = payload.totalExecutors

(***************************************************************************)
(* handle, NodeAction::Set, and the server's node endpoints.               *)
(***************************************************************************)
\* most nodes of the server
MaxComputers == 2

\* the flags of the nodes: temporarily offline, agent connected
ComputerStates ==
    UNION {[1..n -> [offline : BOOLEAN, connected : BOOLEAN]] :
              n \in 1..MaxComputers}

\* the reasons given on the command line: none, one
Reasons == {<<>>, <<"r">>}

\* NodeState                                             args.rs:233-261
NodeStates ==
    [state : {"Disconnect", "Offline"}, reason : Reasons]
        \cup [state : {"Connect", "Online"}, reason : {<<>>}]

\* the endpoint Jenkins::set posts to, and its offlineMessage
\*                                                    jenkins.rs:320-346
set(state, reason) ==
    CASE state = "Disconnect" ->
            [stage |-> "posted", endpoint |-> "doDisconnect", message |-> reason]
      [] state = "Connect" ->
            [stage |-> "posted", endpoint |-> "launchSlaveAgent", message |-> <<>>]
      [] state = "Offline" ->
            [stage |-> "posted", endpoint |-> "toggleOffline", message |-> reason]
      [] state = "Online" ->
            [stage |-> "posted", endpoint |-> "toggleOffline", message |-> <<>>]

\* what the command leaves alone
nodeSetRest == <<followVars, walkVars, stdout, collectVars, downloadVars,
                 parseVars, pathVars, rebuildVars, consumed, nodeInfoVars,
                 buildVars>>

NodeSetInit ==
    /\ computers \in ComputerStates
    /\ node_cmd \in {[node |-> n, state |-> st.state, reason |-> st.reason] :
                        n \in 1..Len(computers), st \in NodeStates}
    /\ node_req = [stage |-> "none", endpoint |-> "", message |-> <<>>]
    /\ stdout = <<>>
    /\ result = "running"
    /\ FollowIdle /\ WalkIdle
    /\ CollectIdle /\ DownloadIdle /\ ParseIdle /\ PathIdle /\ RebuildIdle
    /\ ConsumedIdle /\ NodeInfoIdle /\ BuildIdle

\* jenkins.set(&tree, state): the POST goes out, or send_request fails
\*                                       args.rs:373-376, jenkins.rs:350
PostNodeSet ==
    /\ result = "running"
    /\ node_req.stage = "none"
    /\ \E delivered \in BOOLEAN :
          IF delivered
          THEN /\ node_req' = set(node_cmd.state, node_cmd.reason)
               /\ UNCHANGED result
          ELSE /\ node_req' = [node_req EXCEPT !.stage = "failed"]
               /\ result' = "Err"
    /\ UNCHANGED <<computers, node_cmd, nodeSetRest>>

\* the server's toggleOffline: the node's offline flag is flipped
ToggleOffline ==
    /\ node_req.stage = "posted"
    /\ node_req.endpoint = "toggleOffline"
    /\ computers' = [computers EXCEPT ![node_cmd.node].offline = ~@]
    /\ node_req' = [node_req EXCEPT !.stage = "handled"]
    /\ UNCHANGED <<node_cmd, result, nodeSetRest>>

\* the server's doDisconnect: the agent is disconnected
DoDisconnect ==
    /\ node_req.stage = "posted"
    /\ node_req.endpoint = "doDisconnect"
    /\ computers' = [computers EXCEPT ![node_cmd.node].connected = FALSE]
    /\ node_req' = [node_req EXCEPT !.stage = "handled"]
    /\ UNCHANGED <<node_cmd, result, nodeSetRest>>

\* the server's launchSlaveAgent: the agent is connected
LaunchSlaveAgent ==
    /\ node_req.stage = "posted"
    /\ node_req.endpoint = "launchSlaveAgent"
    /\ computers' = [computers EXCEPT ![node_cmd.node].connected = TRUE]
    /\ node_req' = [node_req EXCEPT !.stage = "handled"]
    /\ UNCHANGED <<node_cmd, result, nodeSetRest>>

\* the response arrives; handle returns Ok(())
NodeSetReturn ==
    /\ result = "running"
    /\ node_req.stage = "handled"
    /\ node_req' = [node_req EXCEPT !.stage = "answered"]
    /\ result' = "Ok"
    /\ UNCHANGED <<computers, node_cmd, nodeSetRest>>

NodeSetNext ==
    \/ PostNodeSet
    \/ ToggleOffline
    \/ DoDisconnect
    \/ LaunchSlaveAgent
    \/ NodeSetReturn

NodeSetSpec == NodeSetInit /\ [][NodeSetNext]_vars

(***************************************************************************)
(* Properties of node set.                                                 *)
(***************************************************************************)
\* C22 as claimed: after a `node set online` that returned Ok the node is
\* online, and after a `node set offline` that returned Ok it is offline,
\* whatever it was before.
C22_SetReachesTheStateAsked ==
    result = "Ok" =>
        /\ node_cmd.state = "Online" => ~computers[node_cmd.node].offline
        /\ node_cmd.state = "Offline" => computers[node_cmd.node].offline

(***************************************************************************)
(* handle, JobAction::Build with --follow, and the server's job: its       *)
(* build queue and the builds it has started.  A build gets its number     *)
(* when the server starts it.                                              *)
(***************************************************************************)
\* most builds of the job that other clients trigger
MaxOthers == 3

\* the builds requested by other clients so far
Others ==
    Cardinality({n \in 1..Len(queue) : queue[n] = "other"})
        + Cardinality({n \in 1..Len(started) : started[n] = "other"})

\* what the command leaves alone
buildRest == <<followVars, walkVars, stdout, collectVars, downloadVars,
               parseVars, pathVars, rebuildVars, consumed, nodeInfoVars,
               nodeSetVars>>

BuildInit ==
    /\ queue = <<>>
    /\ started \in {<<>>, <<"other">>}
    /\ build_info = 0
    /\ followed = 0
    /\ bpc = "start"
    /\ stdout = <<>>
    /\ result = "running"
    /\ FollowIdle /\ WalkIdle
    /\ CollectIdle /\ DownloadIdle /\ ParseIdle /\ PathIdle /\ RebuildIdle
    /\ ConsumedIdle /\ NodeInfoIdle /\ NodeSetIdle

\* another client posts a build of the same job
OtherTriggers ==
    /\ Others < MaxOthers
    /\ queue' = Append(queue, "other")
    /\ UNCHANGED <<started, build_info, followed, bpc, result, buildRest>>

\* the server starts the build at the head of the queue: it gets the next
\* build number
ServerStartsBuild ==
    /\ queue # <<>>
    /\ started' = Append(started, Head(queue))
    /\ queue' = Tail(queue)
    /\ UNCHANGED <<build_info, followed, bpc, result, buildRest>>

\* nextBuildNumber is read and decoded, or that fails     args.rs:411-416
ReadNextBuildNumber ==
    /\ bpc = "start"
    /\ \E ok \in BOOLEAN :
          IF ok
          THEN /\ build_info' = Len(started) + 1
               /\ bpc' = "read"
               /\ UNCHANGED result
          ELSE /\ bpc' = "returned"
               /\ result' = "Err"
               /\ UNCHANGED build_info
    /\ UNCHANGED <<queue, started, followed, buildRest>>

\* jenkins.build(&job, params).await?: the build is queued, or the POST
\* fails                                   args.rs:420, jenkins.rs:263-291
PostBuild ==
    /\ bpc = "read"
    /\ \E ok \in BOOLEAN :
          IF ok
          THEN /\ queue' = Append(queue, "me")
               /\ bpc' = "posted"
               /\ UNCHANGED result
          ELSE /\ bpc' = "returned"
               /\ result' = "Err"
               /\ UNCHANGED queue
    /\ UNCHANGED <<started, build_info, followed, buildRest>>

\* the follow loop is entered: its polls ask for the log of build
\* build_info.next_build_number                           args.rs:422-429
StartFollow ==
    /\ bpc = "posted"
    /\ followed' = build_info
    /\ bpc' = "following"
    /\ UNCHANGED <<queue, started, build_info, result, buildRest>>

BuildNext ==
    \/ OtherTriggers
    \/ ServerStartsBuild
    \/ ReadNextBuildNumber
    \/ PostBuild
    \/ StartFollow

BuildSpec == BuildInit /\ [][BuildNext]_vars

(***************************************************************************)
(* Properties of build --follow.                                           *)
(***************************************************************************)
\* C23 as claimed: the build whose log is followed is the one this
\* command posted: once that build has started its number is the number
\* followed, and the build with the number followed is not another
\* client's.
C23_FollowsOwnBuild ==
    followed # 0 =>
        /\ \A n \in 1..Len(started) : started[n] = "me" => n = followed
        /\ followed <= Len(started) => started[followed] = "me"

(***************************************************************************)
(* The callers of get_json_data: handle, BuildItem::Artifact with          *)
(* BuildParam::Once, which writes the buffer to the archive file, and a    *)
(* JSON operation (JobAction::Rebuild), which hands it to the decoder.     *)
(***************************************************************************)
\* the operations that fetch with get_json_data
FetchOps == {"artifact", "json"}

\* what the callers leave alone
fetchRest == <<res, nread, writer, collected, followVars, walkVars, stdout,
               downloadVars, parseVars, pathVars, rebuildVars,
               nodeInfoVars, nodeSetVars, buildVars>>

FetchInit ==
    /\ res \in CollectResponses
    /\ nread = 0
    /\ writer = <<>>
    /\ collected = [tag |-> "none", error |-> "", bytes |-> <<>>]
    /\ consumed \in {[op |-> op, by |-> "none", bytes |-> <<>>] : op \in FetchOps}
    /\ stdout = <<>>
    /\ result = "running"
    /\ FollowIdle /\ WalkIdle
    /\ DownloadIdle /\ ParseIdle /\ PathIdle /\ RebuildIdle
    /\ NodeInfoIdle /\ NodeSetIdle /\ BuildIdle

\* Ok(data): File::create(..)? and file.write_all(data.get_ref())?
\*                                                        args.rs:485-496
WriteArchive ==
    /\ consumed.op = "artifact" /\ consumed.by = "none"
    /\ collected.tag = "Ok"
    /\ \E created \in BOOLEAN :
          IF created
          THEN /\ consumed' = [consumed EXCEPT !.by = "file",
                                               !.bytes = collected.bytes]
               /\ result' = "Ok"
          ELSE /\ consumed' = [consumed EXCEPT !.by = "io error"]
               /\ result' = "Err"
    /\ UNCHANGED fetchRest

\* Err(e): the error is logged and the command goes on    args.rs:497-500
LogFetchError ==
    /\ consumed.op = "artifact" /\ consumed.by = "none"
    /\ collected.tag = "Err"
    /\ consumed' = [consumed EXCEPT !.by = "log"]
    /\ result' = "Ok"
    /\ UNCHANGED fetchRest

\* Jenkins::system::<job::ActionObj>(json_data.get_ref().as_slice())?: the
\* decoder gets the buffer, and accepts it or not         args.rs:521-522
PassToDecoder ==
    /\ consumed.op = "json" /\ consumed.by = "none"
    /\ collected.tag = "Ok"
    /\ consumed' = [consumed EXCEPT !.by = "decoder", !.bytes = collected.bytes]
    /\ \E decoded \in BOOLEAN :
          result' = IF decoded THEN "running" ELSE "Err"
    /\ UNCHANGED fetchRest

\* jenkins.get_json_data(&tree).await?: the error is returned
\*                                                            args.rs:521
ReturnFetchError ==
    /\ consumed.op = "json" /\ consumed.by = "none"
    /\ collected.tag = "Err"
    /\ consumed' = [consumed EXCEPT !.by = "caller"]
    /\ result' = "Err"
    /\ UNCHANGED fetchRest

FetchNext ==
    \/ Status
    \/ Frame
    \/ Flush
    \/ WriteArchive
    \/ LogFetchError
    \/ PassToDecoder
    \/ ReturnFetchError

FetchSpec == FetchInit /\ [][FetchNext]_vars

(***************************************************************************)
(* Properties of the callers of get_json_data.                             *)
(***************************************************************************)
\* C25: 404 is the only status that makes get_json_data fail: a response
\* with any other status whose frames all arrive is returned as Ok with
\* the body collected, and an error that is not a transfer error comes
\* from a 404.  The artifact download writes the Ok body to the archive
\* file and a JSON operation passes it to the decoder, whatever the
\* status; their error arms are taken only after a failure.
C25_OnlyNotFoundFails ==
    /\ (/\ res.sent /\ res.status # NOT_FOUND /\ ~HasError(res.frames)
        /\ collected.tag \in {"Ok", "Err"})
            => collected = [tag |-> "Ok", error |-> "",
                            bytes |-> DataOf(res.frames)]
    /\ (collected.tag = "Err" /\ collected.error # "hyper")
            => (res.sent /\ res.status = NOT_FOUND)
    /\ consumed.by \in {"file", "io error"}
            => /\ consumed.op = "artifact"
               /\ collected.tag = "Ok"
    /\ consumed.by = "file" => consumed.bytes = DataOf(res.frames)
    /\ consumed.by = "decoder"
            => /\ consumed.op = "json"
               /\ collected.tag = "Ok"
               /\ consumed.bytes = DataOf(res.frames)
    /\ consumed.by \in {"log", "caller"}
            => /\ collected.tag = "Err"
               /\ ~res.sent \/ res.status = NOT_FOUND \/ HasError(res.frames)

\* C25 witness: the body "ab", "cd" of a 500 response was written to the
\* archive file.
C25_Witness ==
    /\ res.sent /\ res.status = 500
    /\ consumed = [op |-> "artifact", by |-> "file",
                   bytes |-> <<97, 98, 99, 100>>]
    /\ result = "Ok"

====
